---- MODULE Spec2Model ----
(***************************************************************************)
(* Model of the Company Security Portal Lambda handler                     *)
(* (lambda-package/index.js) and of the MySQL schema it runs against       *)
(* (database/schema.sql).                                                  *)
(*                                                                         *)
(* The database tables are the state.  Every route of the handler is one   *)
(* action: it reads its input, runs its queries in the order of the code   *)
(* and leaves the call and its response in `resp`.                         *)
(*                                                                         *)
(* The specifications run the same actions on different calls:             *)
(*   Spec         the request lifecycle (create, status update, list)      *)
(*   SpecNotes    one report and the comments its status updates leave     *)
(*   SpecSubmit   report submission with every payload and webhook state   *)
(*   SpecVisible  the list and role resolution for every caller            *)
(*   SpecTrack    one report taken through every status, and the stats     *)
(*   SpecFrame    several reports, what a status update leaves untouched   *)
(*   SpecRoles    role resolution against every kind of role record        *)
(*   SpecRace     two status updates on one request, interleaved at each   *)
(*                await of the handler                                     *)
(***************************************************************************)
EXTENDS Integers, Sequences, FiniteSets, TLC

VARIABLES
    requests,     \* table `requests`: a set of rows, unique by id
    comments,     \* table `request_comments`: a set of rows, unique by id
    user_roles,   \* table `user_roles`: a set of rows, unique by email
    now,          \* the wall clock read by new Date()
    resp,         \* the last call and the response the handler returned to it
    inflight      \* the status updates that run concurrently, each at its await

vars == <<requests, comments, user_roles, now, resp, inflight>>

----------------------------------------------------------------------------
(* Bounds of the model *)

\* Rows of requests and of request_comments in the lifecycle and the
\* visibility specifications, and the ticks of the clock.
MaxRequests == 2
MaxComments == 1
MaxTime == 1
\* Rows of requests in the submission specification.
MaxSubmitted == 1
\* Rows of request_comments in the notes specification.
MaxNotes == 1

----------------------------------------------------------------------------
(* JavaScript values.  Every value is a record tagged with its typeof.     *)

Undefined == [t |-> "undefined"]
Null == [t |-> "null"]
Str(s) == [t |-> "string", s |-> s]
Num(n) == [t |-> "number", n |-> n]
Bool(b) == [t |-> "boolean", b |-> b]
Func(name) == [t |-> "function", name |-> name]

\* The property names the handler or the sample payloads use.
KeySeq == <<"name", "email", "severity", "incidentType", "description", "note">>
Keys == {KeySeq[i] : i \in 1..Len(KeySeq)}

\* An object literal: a missing property reads as undefined.
Obj(f) == [t |-> "object", f |-> [k \in Keys |-> IF k \in DOMAIN f THEN f[k] ELSE Undefined]]
EmptyObj == [t |-> "object", f |-> [k \in Keys |-> Undefined]]

\* JavaScript truthiness, as used by `!x`, `x || y` and `if (x)`.
Truthy(v) ==
    /\ v.t \notin {"undefined", "null"}
    /\ v # Str("")
    /\ v # Num(0)
    /\ v # Bool(FALSE)

\* x || y
OrElse(x, y) == IF Truthy(x) THEN x ELSE y

\* x?.k : undefined on null and undefined, the property otherwise.
Get(x, k) == IF x.t = "object" THEN x.f[k] ELSE Undefined

----------------------------------------------------------------------------
(* JSON text.  A document is written as the sequence of its <<key, value>> *)
(* members, so that writing and reading are two different computations.    *)

JsonText(doc) == [t |-> "string", json |-> doc]
IsJsonText(v) == v.t = "string" /\ "json" \in DOMAIN v

\* A JavaScript array, and the JSON text of one.
Arr(a) == [t |-> "array", a |-> a]
JsonArrayText(a) == [t |-> "string", array |-> a]
IsJsonArrayText(v) == v.t = "string" /\ "array" \in DOMAIN v

RECURSIVE Members(_, _)
\* The members JSON.stringify writes for object o, from key i on: a property
\* whose value is undefined or a function is left out.
Members(o, i) ==
    IF i > Len(KeySeq) THEN <<>>
    ELSE LET k == KeySeq[i]
             v == o.f[k]
         IN  IF v.t \in {"undefined", "function"}
             THEN Members(o, i + 1)
             ELSE <<(<<k, v>>)>> \o Members(o, i + 1)

\* JSON.stringify(v) for an object v.
JSONstringify(v) == JsonText(Members(v, 1))

\* JSON.parse(text) for a text JSON.stringify wrote.
JSONparse(text) ==
    [t |-> "object",
     f |-> [k \in Keys |->
              IF \E i \in 1..Len(text.json) : text.json[i][1] = k
              THEN text.json[CHOOSE i \in 1..Len(text.json) : text.json[i][1] = k][2]
              ELSE Undefined]]

\* parseJSON: null for a falsy argument and for a text that does not parse,
\* the parsed value of a text, any other value as it is.
parseJSON(jsonString) ==
    IF ~Truthy(jsonString) THEN Null
    ELSE IF jsonString.t = "string"
         THEN IF IsJsonText(jsonString) THEN JSONparse(jsonString)
              ELSE IF IsJsonArrayText(jsonString) THEN Arr(jsonString.array)
              ELSE Null
         ELSE jsonString

\* What the driver hands back for a JSON column holding doc: the text, or the
\* value already decoded, depending on the driver's type cast.
ColumnValue(doc, asText) ==
    IF asText THEN JsonText(doc) ELSE JSONparse(JsonText(doc))

----------------------------------------------------------------------------
(* Schema: the CHECK constraints of table requests *)

RequestStatuses == {"open", "in-progress", "resolved", "closed"}
PriorityLevels == {"low", "medium", "high", "critical"}
RequestTypes == {"phishing-email", "suspicious-website", "social-engineering",
                 "malware", "data-breach", "identity-theft", "other",
                 "phishing-report"}
UserRoleNames == {"user", "it-support", "admin"}

\* COLLATE utf8mb4_unicode_ci, the collation of every table: two strings are
\* equal when their weights are, and letter case carries no weight.  This is
\* the weight of the strings of the model.
utf8mb4_unicode_ci(s) ==
    CASE s = "OPEN" -> "open"
      [] OTHER -> s

\* A bind parameter the driver refuses: undefined or a function.
BadBind(v) == v.t \in {"undefined", "function"}

\* The SQL value a bound string parameter becomes.
SqlString(v) == IF v.t = "string" /\ "s" \in DOMAIN v THEN v.s ELSE "?"


\* generateRequestId / generateCommentId: an id no stored row has.
generateRequestId == Cardinality(requests) + 1
generateCommentId == Cardinality(comments) + 1

RowOf(id) == CHOOSE r \in requests : r.id = id
Exists(id) == \E r \in requests : r.id = id

----------------------------------------------------------------------------
(* isITTeamMember *)

ITTeamEmails == {"john.smith@company.net", "admin@company.net"}

\* String.prototype.toLowerCase on the e-mail addresses of the model.
toLowerCase(s) ==
    CASE s = "John.Smith@Company.net" -> "john.smith@company.net"
      [] s = "Bob@Company.net" -> "bob@company.net"
      [] OTHER -> s

\* IT_TEAM_EMAILS.includes(email?.toLowerCase())
isITTeamMember(email) ==
    /\ email.t = "string"
    /\ toLowerCase(email.s) \in ITTeamEmails

----------------------------------------------------------------------------
(* sendTeamsNotification *)

\* The webhook as one call finds it: not configured, answering 2xx, answering
\* an error status, or unreachable (fetch rejects).
Webhooks == {"unset", "ok", "http-error", "network-error"}

\* TRUE when sendTeamsNotification(reportData) rejects instead of returning.
\* The card is built before the try block: String methods are called on
\* (formData.incidentType || type) and on (formData.description || '...').
\* Everything after that is inside try/catch.
sendTeamsNotificationThrows(reportData, webhook) ==
    LET incidentType == OrElse(Get(reportData.formData, "incidentType"), reportData.type)
        description == OrElse(Get(reportData.formData, "description"),
                              Str("No description provided"))
    IN  /\ webhook # "unset"
        /\ \/ incidentType.t \notin {"string", "undefined", "null"}
           \/ description.t # "string"

----------------------------------------------------------------------------
(* POST /api/requests *)

\* Property names every object inherits from Object.prototype.
InheritedKeys == {"constructor", "toString", "valueOf", "hasOwnProperty"}

\* severityToPriority[severity]: an own entry, an inherited member, or undefined.
severityToPriority(severity) ==
    IF severity.t = "string" /\ severity.s \in PriorityLevels THEN severity
    ELSE IF severity.t = "string" /\ severity.s \in InheritedKeys THEN Func(severity.s)
    ELSE Undefined

\* The priority the create handler computes for requestData.
PriorityOf(requestData) ==
    IF Truthy(Get(requestData.formData, "severity"))
    THEN OrElse(severityToPriority(Get(requestData.formData, "severity")), Str("medium"))
    ELSE Str("medium")

\* The row with the form data and the details bound to each other's column.
NewRequestRow_BlobsSwapped(requestData, requestId) ==
    [id |-> requestId,
     user_id |-> SqlString(OrElse(requestData.userId, Str("test-user-123"))),
     user_info |-> JSONstringify(requestData.userInfo).json,
     form_data |-> JSONstringify(OrElse(requestData.details, EmptyObj)).json,
     request_type |-> SqlString(requestData.type),
     details |-> JSONstringify(OrElse(requestData.formData, EmptyObj)).json,
     reason |-> SqlString(requestData.reason),
     request_status |-> "open",
     priority_level |-> SqlString(PriorityOf(requestData)),
     created_at |-> now,
     updated_at |-> now]

\* The row the INSERT of the create handler binds.
NewRequestRow(requestData, requestId) ==
    [id |-> requestId,
     user_id |-> SqlString(OrElse(requestData.userId, Str("test-user-123"))),
     user_info |-> JSONstringify(requestData.userInfo).json,
     form_data |-> JSONstringify(OrElse(requestData.formData, EmptyObj)).json,
     request_type |-> SqlString(requestData.type),
     details |-> JSONstringify(OrElse(requestData.details, EmptyObj)).json,
     reason |-> SqlString(requestData.reason),
     request_status |-> "open",
     priority_level |-> SqlString(PriorityOf(requestData)),
     created_at |-> now,
     updated_at |-> now]

\* TRUE when the INSERT into requests is refused: a parameter the driver does
\* not bind, or a row that violates a CHECK constraint of the table.
InsertRequestFails(requestData) ==
    \/ BadBind(PriorityOf(requestData))
    \/ SqlString(PriorityOf(requestData)) \notin PriorityLevels
    \/ utf8mb4_unicode_ci(SqlString(requestData.type)) \notin RequestTypes

\* The 201 body's request.
CreatedRequest(requestData, requestId) ==
    [id |-> requestId,
     userId |-> SqlString(OrElse(requestData.userId, Str("test-user-123"))),
     userInfo |-> requestData.userInfo,
     formData |-> requestData.formData,
     type |-> requestData.type,
     details |-> requestData.details,
     reason |-> requestData.reason,
     status |-> "open",
     priority |-> PriorityOf(requestData),
     createdAt |-> now]

\* The required-field test without the test of reason.
MissingRequiredFields_NoReason(requestData) ==
    ~Truthy(requestData.userInfo) \/ ~Truthy(requestData.type)

\* !requestData.userInfo || !requestData.type || !requestData.reason
MissingRequiredFields(requestData) ==
    ~Truthy(requestData.userInfo) \/ ~Truthy(requestData.type)
        \/ ~Truthy(requestData.reason)

\* fault: the storage collaborator fails the query (executeQuery rethrows).
CreateRequest(requestData, webhook, fault) ==
    /\ LET call == [op |-> "create", requestData |-> requestData,
                    webhook |-> webhook, fault |-> fault]
           requestId == generateRequestId
       IN  IF MissingRequiredFields(requestData)
           THEN /\ resp' = call @@ [statusCode |-> 400]
                /\ UNCHANGED requests
           ELSE IF fault \/ InsertRequestFails(requestData)
           THEN /\ resp' = call @@ [statusCode |-> 500]
                /\ UNCHANGED requests
           ELSE /\ requests' = requests \cup {NewRequestRow(requestData, requestId)}
                /\ IF sendTeamsNotificationThrows(
                          [formData |-> requestData.formData, type |-> requestData.type],
                          webhook)
                   THEN resp' = call @@ [statusCode |-> 500, requestId |-> requestId]
                   ELSE resp' = call @@ [statusCode |-> 201, requestId |-> requestId,
                                         request |-> CreatedRequest(requestData, requestId)]
    /\ UNCHANGED <<comments, user_roles, now, inflight>>

----------------------------------------------------------------------------
(* The SELECT ... LEFT JOIN ... GROUP BY of the list and of the re-fetch *)

\* All the ways to write the finite set S as a sequence without repetition.
Orders(S) ==
    {s \in [1..Cardinality(S) -> S] : \A i, j \in DOMAIN s : i # j => s[i] # s[j]}

CommentsOf(cs, id) == {c \in cs : c.request_id = id}

\* JSON_OBJECT('id', c.id, 'userId', c.user_id, ...)
JSON_OBJECT(c) ==
    [t |-> "object", id |-> c.id, userId |-> c.user_id, userName |-> c.user_name,
     message |-> c.message, timestamp |-> c.created_at, isInternal |-> c.is_internal]

\* JSON_ARRAYAGG(CASE WHEN c.id IS NOT NULL THEN JSON_OBJECT(...) ELSE NULL END)
\* over the rows that join request id with the comment table cs: one NULL for
\* the row the outer join keeps when there is no comment, else the comments in
\* an order SQL does not fix.
JSON_ARRAYAGG(cs, id) ==
    IF CommentsOf(cs, id) = {} THEN {<<Null>>}
    ELSE {[i \in DOMAIN o |-> JSON_OBJECT(o[i])] : o \in Orders(CommentsOf(cs, id))}

\* The filter that keeps every element.
FilterNotNull_KeepsNull(a) == a

RECURSIVE FilterNotNull(_)
\* array.filter(c => c !== null)
FilterNotNull(a) ==
    IF a = <<>> THEN <<>>
    ELSE IF Head(a) = Null THEN FilterNotNull(Tail(a))
         ELSE <<Head(a)>> \o FilterNotNull(Tail(a))

\* What the driver hands back for the aggregate agg: the array, or its text.
AggregateValue(agg, asText) == IF asText THEN JsonArrayText(agg) ELSE Arr(agg)

\* row.comments ? parseJSON(row.comments).filter(c => c !== null) : []
CommentsArray(value) ==
    IF Truthy(value) THEN FilterNotNull(parseJSON(value).a) ELSE <<>>

\* The object both the list and the status update build from a fetched row.
Transform(row, agg, asText) ==
    [id |-> row.id,
     userId |-> row.user_id,
     userInfo |-> parseJSON(ColumnValue(row.user_info, asText)),
     formData |-> parseJSON(ColumnValue(row.form_data, asText)),
     type |-> row.request_type,
     details |-> parseJSON(ColumnValue(row.details, asText)),
     reason |-> row.reason,
     status |-> row.request_status,
     priority |-> row.priority_level,
     createdAt |-> row.created_at,
     updatedAt |-> row.updated_at,
     comments |-> CommentsArray(AggregateValue(agg, asText)),
     severity |-> OrElse(Get(parseJSON(ColumnValue(row.form_data, asText)), "severity"),
                         Str(row.priority_level))]

\* Every object a fetch of row, joined with the comment table cs, can return.
Transformed(cs, row) ==
    {Transform(row, agg, asText) : agg \in JSON_ARRAYAGG(cs, row.id), asText \in BOOLEAN}

RECURSIVE MapRows(_, _)
\* rows.map(row => ...): every array the map can give for the fetched rows.
MapRows(cs, rows) ==
    IF rows = <<>> THEN {<<>>}
    ELSE {<<first>> \o rest : first \in Transformed(cs, Head(rows)),
                              rest \in MapRows(cs, Tail(rows))}

----------------------------------------------------------------------------
(* GET /api/requests *)

\* The rows the list query selects for the query-string parameters q.
ListedRows(q) ==
    LET userId == OrElse(q.userId, Str("test-user-123"))
        userEmail == OrElse(q.userEmail, Str("john.smith@company.net"))
        isITUser == isITTeamMember(userEmail)
    IN  IF isITUser THEN requests
        ELSE {r \in requests : r.user_id = SqlString(userId)}

\* ORDER BY r.created_at DESC: any order of the rows that respects it.
OrderByCreatedDesc(rows) ==
    {s \in Orders(rows) : \A i, j \in DOMAIN s : i < j => s[i].created_at >= s[j].created_at}

ListRequests(q, fault) ==
    /\ LET call == [op |-> "list", q |-> q, fault |-> fault,
                    isITUser |-> isITTeamMember(OrElse(q.userEmail,
                                                       Str("john.smith@company.net")))]
       IN  IF fault
           THEN resp' = call @@ [statusCode |-> 500]
           ELSE \E rows \in OrderByCreatedDesc(ListedRows(q)) :
                \E out \in MapRows(comments, rows) :
                   resp' = call @@ [statusCode |-> 200, requests |-> out,
                                    count |-> Len(out)]
    /\ UNCHANGED <<requests, comments, user_roles, now, inflight>>

----------------------------------------------------------------------------
(* PUT /api/requests/{id}/status *)

\* String.prototype.trim on the notes of the model.
trim(s) == IF s = "  " THEN "" ELSE s

\* The test of the notes without the trim.
HasNotes_NoTrim(updateData) == Truthy(updateData.notes)

\* updateData.notes && updateData.notes.trim()
HasNotes(updateData) ==
    /\ Truthy(updateData.notes)
    /\ trim(updateData.notes.s) # ""

\* The message without the notes.
StatusMessage_OmitsNotes(updateData) ==
    <<"Status changed to ", SqlString(updateData.status), ".">>

\* `Status changed to ${status}. Notes: ${notes}`
StatusMessage(updateData) ==
    <<"Status changed to ", SqlString(updateData.status), ". Notes: ", updateData.notes.s>>

\* The row the INSERT of the status update binds.
NewCommentRow(requestId, updateData, commentId) ==
    [id |-> commentId,
     request_id |-> requestId,
     user_id |-> SqlString(OrElse(updateData.updatedBy, Str("admin"))),
     user_name |-> "IT Admin",
     message |-> StatusMessage(updateData),
     is_internal |-> IF Truthy(OrElse(updateData.isInternal, Bool(FALSE))) THEN 1 ELSE 0,
     created_at |-> now]

\* The UPDATE without its WHERE clause.
UpdatedRequests_NoWhere(requestId, updateData) ==
    {[r EXCEPT !.request_status = SqlString(updateData.status), !.updated_at = now] :
        r \in requests}

\* The UPDATE that only changes a request that is still open.
UpdatedRequests_OnlyFromOpen(requestId, updateData) ==
    {IF r.id = requestId /\ r.request_status = "open"
     THEN [r EXCEPT !.request_status = SqlString(updateData.status), !.updated_at = now]
     ELSE r : r \in requests}

\* The UPDATE that never takes a request back to open.
UpdatedRequests_NeverReopens(requestId, updateData) ==
    {IF r.id = requestId
        /\ (r.request_status = "open" \/ SqlString(updateData.status) # "open")
     THEN [r EXCEPT !.request_status = SqlString(updateData.status), !.updated_at = now]
     ELSE r : r \in requests}

\* UPDATE requests SET request_status = ?, updated_at = ? WHERE id = ?
UpdatedRequests(requestId, updateData) ==
    {IF r.id = requestId
     THEN [r EXCEPT !.request_status = SqlString(updateData.status), !.updated_at = now]
     ELSE r : r \in requests}

\* TRUE when the UPDATE is refused: a row it changes would violate
\* chk_request_status, whose IN compares under the collation of the column.
\* An UPDATE that matches no row changes none.
UpdateStatusFails(requestId, updateData) ==
    /\ Exists(requestId)
    /\ utf8mb4_unicode_ci(SqlString(updateData.status)) \notin RequestStatuses

\* TRUE when the INSERT into request_comments is refused: the foreign key
\* request_id has no parent row.
InsertCommentFails(requestId) == ~Exists(requestId)

\* The queries of one status update, in the order the handler awaits them.
UpdateQueries == {"update", "comment", "fetch"}

\* fault: the query the storage collaborator fails, or "none".
UpdateRequestStatus(requestId, updateData, fault) ==
    /\ fault # "none" => Truthy(updateData.status)
    /\ fault = "comment" => HasNotes(updateData)
    /\ LET call == [op |-> "update", requestId |-> requestId,
                    updateData |-> updateData, fault |-> fault]
           written == UpdatedRequests(requestId, updateData)
           commentId == generateCommentId
       IN  IF ~Truthy(updateData.status)
           THEN /\ resp' = call @@ [statusCode |-> 400]
                /\ UNCHANGED <<requests, comments>>
           ELSE IF fault = "update" \/ UpdateStatusFails(requestId, updateData)
           THEN /\ resp' = call @@ [statusCode |-> 500]
                /\ UNCHANGED <<requests, comments>>
           ELSE IF HasNotes(updateData) /\ (fault = "comment" \/ InsertCommentFails(requestId))
           THEN /\ requests' = written
                /\ resp' = call @@ [statusCode |-> 500]
                /\ UNCHANGED comments
           ELSE /\ requests' = written
                /\ comments' = IF HasNotes(updateData)
                               THEN comments \cup {NewCommentRow(requestId, updateData, commentId)}
                               ELSE comments
                /\ IF fault = "fetch"
                   THEN resp' = call @@ [statusCode |-> 500]
                   ELSE IF ~Exists(requestId)
                   THEN resp' = call @@ [statusCode |-> 404]
                   ELSE \E updatedRequest \in
                              Transformed(comments', CHOOSE r \in written : r.id = requestId) :
                           resp' = call @@ [statusCode |-> 200, request |-> updatedRequest]
    /\ UNCHANGED <<user_roles, now, inflight>>

----------------------------------------------------------------------------
(* PUT /api/requests/{id}/status, one await at a time.  Each invocation runs *)
(* in its own execution context with its own connection; the storage        *)
(* commits each statement on its own (autocommit).                          *)

Invocations == {"A", "B"}

\* An execution context that has not been invoked.
Idle == [pc |-> "idle"]
NoneInFlight == [i \in Invocations |-> Idle]

\* The number of status writes the storage has committed.
Committed == Cardinality({i \in Invocations : inflight[i].pc # "idle" /\ inflight[i].wrote > 0})

\* Lines 526-540: the handler parses the call; a body without status is
\* answered 400, else the first query is issued.  wrote is the place of the
\* invocation's status write in the order the storage commits them, seen the
\* number of status writes committed when the re-fetch runs.
Begin(i, requestId, updateData) ==
    /\ inflight[i].pc = "idle"
    /\ inflight' = [inflight EXCEPT ![i] =
           [pc |-> IF Truthy(updateData.status) THEN "update" ELSE "done",
            requestId |-> requestId, updateData |-> updateData,
            wrote |-> 0, seen |-> 0,
            response |-> IF Truthy(updateData.status) THEN [statusCode |-> 0]
                         ELSE [statusCode |-> 400]]]
    /\ UNCHANGED <<requests, comments, user_roles, now, resp>>

\* Lines 543-545: await executeQuery(updateSql, updateParams).
WriteStatus(i) ==
    LET call == inflight[i]
    IN  /\ call.pc = "update"
        /\ IF UpdateStatusFails(call.requestId, call.updateData)
           THEN /\ inflight' = [inflight EXCEPT ![i].pc = "done",
                                                ![i].response = [statusCode |-> 500]]
                /\ UNCHANGED requests
           ELSE /\ requests' = UpdatedRequests(call.requestId, call.updateData)
                /\ inflight' = [inflight EXCEPT
                       ![i].pc = IF HasNotes(call.updateData) THEN "comment" ELSE "fetch",
                       ![i].wrote = IF Exists(call.requestId) THEN Committed + 1 ELSE 0]
        /\ UNCHANGED <<comments, user_roles, now, resp>>

\* Lines 548-567: await executeQuery(commentSql, commentParams).
WriteComment(i) ==
    LET call == inflight[i]
    IN  /\ call.pc = "comment"
        /\ IF InsertCommentFails(call.requestId)
           THEN /\ inflight' = [inflight EXCEPT ![i].pc = "done",
                                                ![i].response = [statusCode |-> 500]]
                /\ UNCHANGED comments
           ELSE /\ comments' = comments \cup
                       {NewCommentRow(call.requestId, call.updateData, generateCommentId)}
                /\ inflight' = [inflight EXCEPT ![i].pc = "fetch"]
        /\ UNCHANGED <<requests, user_roles, now, resp>>

\* The re-fetch that answers with the status the invocation asked for.
FetchRequest_FromOwnWrite(i) ==
    LET call == inflight[i]
    IN  /\ call.pc = "fetch"
        /\ IF ~Exists(call.requestId)
           THEN inflight' = [inflight EXCEPT ![i].pc = "done",
                                            ![i].response = [statusCode |-> 404]]
           ELSE \E updatedRequest \in Transformed(comments, RowOf(call.requestId)) :
                   inflight' = [inflight EXCEPT
                       ![i].pc = "done",
                       ![i].seen = Committed,
                       ![i].response =
                           [statusCode |-> 200,
                            request |-> [updatedRequest EXCEPT
                                           !.status = SqlString(call.updateData.status)]]]
        /\ UNCHANGED <<requests, comments, user_roles, now, resp>>

\* Lines 573-634: await executeQuery(fetchSql, [requestId]) and the answer.
FetchRequest(i) ==
    LET call == inflight[i]
    IN  /\ call.pc = "fetch"
        /\ IF ~Exists(call.requestId)
           THEN inflight' = [inflight EXCEPT ![i].pc = "done",
                                            ![i].response = [statusCode |-> 404]]
           ELSE \E updatedRequest \in Transformed(comments, RowOf(call.requestId)) :
                   inflight' = [inflight EXCEPT
                       ![i].pc = "done",
                       ![i].seen = Committed,
                       ![i].response = [statusCode |-> 200, request |-> updatedRequest]]
        /\ UNCHANGED <<requests, comments, user_roles, now, resp>>

\* The next await of invocation i.
Resume(i) == WriteStatus(i) \/ WriteComment(i) \/ FetchRequest(i)

----------------------------------------------------------------------------
(* GET /api/auth/user-role *)

MinimalPermissions == <<"request:create", "request:view-own">>
ITSupportPermissions ==
    <<"request:create", "request:view-own", "request:view-all", "request:approve",
      "request:assign", "notification:send", "analytics:view">>
AdminPermissions ==
    <<"request:create", "request:view-own", "request:view-all", "request:approve",
      "request:assign", "request:delete", "notification:send", "user:manage",
      "analytics:view">>

\* The fallback of the catch block, keyed by role.
FallbackPermissions(role) ==
    IF role = "admin" THEN Arr(AdminPermissions)
    ELSE IF role = "it-support" THEN Arr(ITSupportPermissions)
    ELSE Arr(MinimalPermissions)

\* The permissions the handler takes from the stored value permissionsData.
\* A string goes through JSON.parse and whatever it parses to is kept; only a
\* text that does not parse reaches the catch block.
PermissionsOf(role, permissionsData) ==
    IF permissionsData.t = "string"
    THEN IF IsJsonArrayText(permissionsData) THEN Arr(permissionsData.array)
         ELSE IF IsJsonText(permissionsData) THEN JSONparse(permissionsData)
         ELSE FallbackPermissions(role)
    ELSE IF permissionsData.t = "array" THEN permissionsData
    ELSE Arr(MinimalPermissions)

\* SELECT user_role, permissions FROM user_roles WHERE email = ?
RoleRows(email) == {u \in user_roles : u.email = toLowerCase(email)}

\* The resolution that takes an e-mail without a record from the IT team list.
ResolveRole_UnknownFromTeamList(userEmail) ==
    LET result == RoleRows(userEmail.s)
        found == result # {}
        role == IF found THEN (CHOOSE u \in result : TRUE).user_role
                ELSE IF isITTeamMember(userEmail) THEN "it-support" ELSE "user"
        permissions ==
            IF found
            THEN PermissionsOf(role, (CHOOSE u \in result : TRUE).permissions)
            ELSE FallbackPermissions(role)
    IN  [email |-> userEmail,
         name |-> "Unknown User",
         role |-> role,
         permissions |-> permissions,
         isITTeam |-> (role = "it-support" \/ role = "admin"),
         isAdmin |-> (role = "admin")]

\* The user object of the 200 response for a non-empty userEmail.
ResolveRole(userEmail) ==
    LET result == RoleRows(userEmail.s)
        found == result # {}
        role == IF found THEN (CHOOSE u \in result : TRUE).user_role ELSE "user"
        permissions ==
            IF found
            THEN PermissionsOf(role, (CHOOSE u \in result : TRUE).permissions)
            ELSE Arr(MinimalPermissions)
    IN  [email |-> userEmail,
         name |-> "Unknown User",
         role |-> role,
         permissions |-> permissions,
         isITTeam |-> (role = "it-support" \/ role = "admin"),
         isAdmin |-> (role = "admin")]

GetUserRole(userEmail, fault) ==
    /\ LET call == [op |-> "user-role", userEmail |-> userEmail, fault |-> fault]
       IN  IF ~Truthy(userEmail)
           THEN resp' = call @@ [statusCode |-> 400]
           ELSE IF fault
           THEN resp' = call @@ [statusCode |-> 500]
           ELSE resp' = call @@ [statusCode |-> 200, user |-> ResolveRole(userEmail)]
    /\ UNCHANGED <<requests, comments, user_roles, now, inflight>>

----------------------------------------------------------------------------
(* GET /api/requests/stats, and the view request_stats it selects from *)

\* SUM(CASE WHEN ... THEN 1 ELSE 0 END) over rows, where matching are the
\* rows the CASE gives 1 for: their number, and NULL when there is no row to
\* sum.
SumCase(rows, matching) ==
    IF rows = {} THEN Null ELSE Num(Cardinality(matching))

\* The clock counts hours: DATE(t), and t - INTERVAL d DAY.
DATE(t) == t \div 24
DATE_SUB(t, d) == t - d * 24

RECURSIVE TotalHours(_)
\* The sum of TIMESTAMPDIFF(HOUR, created_at, COALESCE(completed_at, updated_at))
\* over rows; no statement of the handler sets completed_at, so it is NULL.
TotalHours(rows) ==
    IF rows = {} THEN 0
    ELSE LET r == CHOOSE x \in rows : TRUE
         IN  (r.updated_at - r.created_at) + TotalHours(rows \ {r})

\* ROUND(AVG(CASE WHEN request_status IN ('completed', 'resolved', 'closed')
\* ... END), 2): NULL when no row is averaged, else the mean in hundredths of
\* an hour, rounded half up.
AvgProcessingTime(rows) ==
    LET done == {r \in rows : utf8mb4_unicode_ci(r.request_status)
                                 \in {"completed", "resolved", "closed"}}
        n == Cardinality(done)
    IN  IF done = {} THEN Null
        ELSE Num((200 * TotalHours(done) + n) \div (2 * n))

\* SELECT * FROM request_stats: an aggregate without GROUP BY gives one row,
\* also over an empty table.  by_status, by_type and by_priority hold the
\* columns open_count ..., phishing_email_count ..., priority_low_count ...
request_stats ==
    <<[total_requests |-> Num(Cardinality(requests)),
       by_status |-> [st \in RequestStatuses |->
           SumCase(requests,
                   {r \in requests : utf8mb4_unicode_ci(r.request_status) = st})],
       today_count |->
           SumCase(requests, {r \in requests : DATE(r.created_at) = DATE(now)}),
       week_count |->
           SumCase(requests, {r \in requests : r.created_at >= DATE_SUB(now, 7)}),
       month_count |->
           SumCase(requests, {r \in requests : r.created_at >= DATE_SUB(now, 30)}),
       by_type |-> [ty \in RequestTypes |->
           SumCase(requests,
                   {r \in requests : utf8mb4_unicode_ci(r.request_type) = ty})],
       by_priority |-> [pl \in PriorityLevels |->
           SumCase(requests,
                   {r \in requests : utf8mb4_unicode_ci(r.priority_level) = pl})],
       security_incidents_count |->
           SumCase(requests,
                   {r \in requests : utf8mb4_unicode_ci(r.request_type) \in RequestTypes}),
       avg_processing_time_hours |-> AvgProcessingTime(requests)]>>

\* The statistics the handler answers with when the query gives no row.
DefaultStatistics ==
    [total |-> Num(0), open |-> Num(0), inProgress |-> Num(0),
     resolved |-> Num(0), closed |-> Num(0)]

\* const [stats] = rows;  statistics: stats || {...}
GetStats(fault) ==
    /\ LET call == [op |-> "stats", fault |-> fault]
           rows == request_stats
       IN  IF fault
           THEN resp' = call @@ [statusCode |-> 500]
           ELSE resp' = call @@ [statusCode |-> 200,
                                 statistics |-> IF Len(rows) > 0 THEN rows[1]
                                                ELSE DefaultStatistics]
    /\ UNCHANGED <<requests, comments, user_roles, now, inflight>>

----------------------------------------------------------------------------
(* The clock *)

Tick ==
    /\ now < MaxTime
    /\ now' = now + 1
    /\ UNCHANGED <<requests, comments, user_roles, resp, inflight>>

----------------------------------------------------------------------------
(* The calls of the model *)

UserObj == Obj([name |-> Str("Ann"), email |-> Str("ann@company.net")])

\* A complete report without the optional members.
BasePayload ==
    [userId |-> Str("u1"), userInfo |-> UserObj, type |-> Str("malware"),
     reason |-> Str("r1"), formData |-> Undefined, details |-> Undefined]

Severities == PriorityLevels \cup {"urgent", "constructor"}

FormDatas ==
    {Null, EmptyObj}
    \cup {Obj([severity |-> Str(s)]) : s \in Severities}
    \cup {Obj([severity |-> Str("high"), description |-> Str("d"),
               incidentType |-> Str("phishing-email")]),
          Obj([description |-> Num(42)]),
          Obj([incidentType |-> Num(5)])}

\* The reports: every combination of the required members present and
\* missing, and the complete report with each other member varied in turn.
Payloads ==
    {[BasePayload EXCEPT !.userInfo = u, !.type = t, !.reason = r] :
        u \in {Undefined, UserObj},
        t \in {Undefined, Str("malware")},
        r \in {Undefined, Str(""), Str("r1")}}
    \cup {[BasePayload EXCEPT !.type = Str("bogus")]}
    \cup {[BasePayload EXCEPT !.formData = f] : f \in FormDatas}
    \cup {[BasePayload EXCEPT !.details = Obj([note |-> Str("x")])]}
    \cup {[BasePayload EXCEPT !.userId = i] : i \in {Undefined, Str("u2")}}

\* The reports that differ in their owner only.
OwnerPayloads ==
    {[BasePayload EXCEPT !.userId = i] : i \in {Undefined, Str("u1"), Str("u2")}}

\* The query strings of the list.
Queries ==
    [userId : {Undefined, Str("u1"), Str("u2")},
     userEmail : {Undefined, Str("john.smith@company.net"), Str("John.Smith@Company.net"),
                  Str("bob@company.net")}]

\* The bodies of the status update: every status with absent, blank and
\* non-blank notes, and one body that also names updatedBy and isInternal,
\* which only reach the comment.
UpdateStatusValues ==
    {Undefined, Str("open"), Str("in-progress"), Str("closed"), Str("pending")}

UpdateDatas ==
    [status : UpdateStatusValues, notes : {Undefined, Str("  "), Str("n1")},
     updatedBy : {Undefined}, isInternal : {Undefined}]
    \cup
    {[status |-> Str("in-progress"), notes |-> Str("n1"),
      updatedBy |-> Str("it-1"), isInternal |-> Bool(TRUE)]}

\* The bodies that ask for each status of the enum, for one that differs
\* from a status of the enum in letter case only and for one outside the
\* enum, with and without notes.
TransitionDatas ==
    [status : {Str(st) : st \in RequestStatuses \cup {"OPEN", "pending"}},
     notes : {Undefined, Str("n1")},
     updatedBy : {Undefined}, isInternal : {Undefined}]

\* The bodies that ask for a status of the enum with absent, blank and
\* non-blank notes.
FrameDatas ==
    [status : {Str("in-progress"), Str("closed")},
     notes : {Undefined, Str("  "), Str("n1")},
     updatedBy : {Undefined}, isInternal : {Undefined}]

\* The ids a status update names: the ids create gives to n requests, and one
\* it never gives.
UpdateIds(n) == 0..n

\* The rows schema.sql seeds user_roles with.
SeedRoles ==
    {[email |-> e, user_role |-> "admin", permissions |-> Arr(AdminPermissions)] :
        e \in ITTeamEmails}

NoCall == [op |-> "none", statusCode |-> 0]

\* The bodies of the concurrent status updates.
RaceDatas ==
    [status : {Str("in-progress"), Str("closed")}, notes : {Undefined, Str("n1")},
     updatedBy : {Undefined}, isInternal : {Undefined}]

----------------------------------------------------------------------------
(* Specifications *)

Init ==
    /\ requests = {}
    /\ comments = {}
    /\ user_roles = SeedRoles
    /\ now = 0
    /\ resp = NoCall
    /\ inflight = NoneInFlight

\* The request lifecycle: reports are created, their status is updated with
\* any body and any failing query, and the list is read.
Create ==
    /\ Cardinality(requests) < MaxRequests
    /\ CreateRequest(BasePayload, "unset", FALSE)

UpdateStatus ==
    \E id \in UpdateIds(MaxRequests), u \in UpdateDatas,
       fault \in UpdateQueries \cup {"none"} :
        /\ HasNotes(u) => Cardinality(comments) < MaxComments
        /\ UpdateRequestStatus(id, u, fault)

List ==
    \E q \in {[userId |-> Str("u1"), userEmail |-> e] :
                e \in {Str("bob@company.net"), Str("admin@company.net")}} :
        ListRequests(q, FALSE)

Next == Create \/ UpdateStatus \/ List

Spec == Init /\ [][Next]_vars

\* Notes: one report is created and its status, or that of a request that
\* does not exist, is updated with any body and any failing query.
Report ==
    /\ requests = {}
    /\ CreateRequest(BasePayload, "unset", FALSE)

Annotate ==
    \E id \in UpdateIds(1), u \in UpdateDatas,
       fault \in UpdateQueries \cup {"none"} :
        /\ HasNotes(u) => Cardinality(comments) < MaxNotes
        /\ UpdateRequestStatus(id, u, fault)

NextNotes == Report \/ Annotate

SpecNotes == Init /\ [][NextNotes]_vars

\* Transitions: one report is taken through every status, in any order, while
\* the clock runs, and the statistics are read.
Transition ==
    \E id \in UpdateIds(1), u \in TransitionDatas :
        /\ HasNotes(u) => Cardinality(comments) < MaxNotes
        /\ UpdateRequestStatus(id, u, "none")

Stats == \E fault \in BOOLEAN : GetStats(fault)

NextTrack == Report \/ Transition \/ Stats \/ Tick

SpecTrack == Init /\ [][NextTrack]_vars

\* Frame: several reports, status updates on any of them and on a request
\* that does not exist, and the list as the IT team reads it.
Amend ==
    \E id \in UpdateIds(MaxRequests), u \in FrameDatas :
        /\ HasNotes(u) => Cardinality(comments) < MaxComments
        /\ UpdateRequestStatus(id, u, "none")

Browse ==
    ListRequests([userId |-> Str("it-1"), userEmail |-> Str("admin@company.net")], FALSE)

NextFrame == Create \/ Amend \/ Browse

SpecFrame == Init /\ [][NextFrame]_vars

\* Race: one report, and two status updates on it that start at any time after
\* it is stored and resume in any order.  The clock stands still, so the
\* timestamp an invocation read at line 540 is the one its writes bind.
Invoke ==
    \E i \in Invocations, r \in requests, u \in RaceDatas : Begin(i, r.id, u)

Proceed == \E i \in Invocations : Resume(i)

NextRace == Report \/ Invoke \/ Proceed

SpecRace == Init /\ [][NextRace]_vars

\* Report submission: every report of the model is submitted, with every
\* state of the webhook, and read back through the list.
Submit ==
    \E p \in Payloads, webhook \in Webhooks, fault \in BOOLEAN :
        /\ ~MissingRequiredFields(p) => Cardinality(requests) < MaxSubmitted
        /\ fault => webhook = "unset"
        /\ CreateRequest(p, webhook, fault)

ReadBack == \E q \in Queries : ListRequests(q, FALSE)

NextSubmit == Submit \/ ReadBack

SpecSubmit == Init /\ [][NextSubmit]_vars

\* Visibility: reports of several owners, listed by every caller, against
\* every content of the role store.
RoleStores ==
    {j \cup b :
       j \in {{}, {[email |-> "john.smith@company.net", user_role |-> "admin",
                    permissions |-> Arr(AdminPermissions)]}},
       b \in {{}} \cup {{[email |-> "bob@company.net", user_role |-> r,
                          permissions |-> FallbackPermissions(r)]} : r \in UserRoleNames}}

InitRoles ==
    /\ requests = {}
    /\ comments = {}
    /\ user_roles \in RoleStores
    /\ now = 0
    /\ resp = NoCall
    /\ inflight = NoneInFlight

CreateOwned ==
    \E p \in OwnerPayloads :
        /\ Cardinality(requests) < MaxRequests
        /\ CreateRequest(p, "unset", FALSE)

ListAs == \E q \in Queries, fault \in BOOLEAN : ListRequests(q, fault)

UserRole ==
    \E e \in {Undefined, Str("john.smith@company.net"), Str("Bob@Company.net"),
              Str("bob@company.net")}, fault \in BOOLEAN :
        GetUserRole(e, fault)

NextVisible == CreateOwned \/ ListAs \/ UserRole \/ Tick

SpecVisible == InitRoles /\ [][NextVisible]_vars

\* Role records: the store holds no record or one record of any role, whose
\* permissions column reads as a list, as the text of a list, as a text that
\* parses to an object, as a text that does not parse, as NULL or as an
\* object; every caller's role is resolved.
StoredPermissions ==
    {Arr(ITSupportPermissions), JsonArrayText(ITSupportPermissions),
     JsonText(<<(<<"note", Str("x")>>)>>), Str("[request:create"),
     Null, Obj([note |-> Str("x")])}

RoleRecords ==
    {{}} \cup {{[email |-> "bob@company.net", user_role |-> r, permissions |-> p]} :
                 r \in UserRoleNames, p \in StoredPermissions}

InitRecords ==
    /\ requests = {}
    /\ comments = {}
    /\ user_roles \in RoleRecords
    /\ now = 0
    /\ resp = NoCall
    /\ inflight = NoneInFlight

NextRoles == UserRole

SpecRoles == InitRecords /\ [][NextRoles]_vars

----------------------------------------------------------------------------
(* Properties of report submission (SpecSubmit) *)

\* The last call was a create of a report with the required members, a
\* request type the schema admits, and no failure of the storage collaborator.
ValidCreate ==
    /\ resp.op = "create"
    /\ ~resp.fault
    /\ Truthy(resp.requestData.userInfo)
    /\ Truthy(resp.requestData.type)
    /\ Truthy(resp.requestData.reason)
    /\ SqlString(resp.requestData.type) \in RequestTypes

\* The last create stored its row.
Persisted == resp.op = "create" /\ "requestId" \in DOMAIN resp

MappedSeverity(requestData) ==
    LET severity == Get(requestData.formData, "severity")
    IN  IF severity.t = "string" /\ severity.s \in PriorityLevels
        THEN severity.s
        ELSE "medium"

\* C3: every valid create stores its row, with formData.severity as the
\* priority when that is one of low, medium, high, critical and medium when it
\* is anything else or absent.
C3_PriorityIsMappedSeverity ==
    ValidCreate =>
        /\ Persisted
        /\ RowOf(resp.requestId).priority_level = MappedSeverity(resp.requestData)

\* C6: a create that has stored its row answers 201, whatever the webhook does.
C6_NotificationNeverFailsCreate ==
    Persisted => resp.statusCode = 201

\* What an immediate fetch of the request just created returns to its owner.
FetchedAfterCreate ==
    UNION {Transformed(comments, r) :
             r \in {x \in ListedRows([userId |-> resp.requestData.userId,
                                      userEmail |-> Str("bob@company.net")]) :
                      x.id = resp.requestId}}

\* C8 as stated: the fetch gives back userInfo, formData, details, reason and
\* type as they were submitted, with status open and no comment.
C8_RoundTripIdentical ==
    (resp.op = "create" /\ resp.statusCode = 201) =>
        /\ FetchedAfterCreate # {}
        /\ \A f \in FetchedAfterCreate :
              /\ f.userInfo = resp.requestData.userInfo
              /\ f.formData = resp.requestData.formData
              /\ f.details = resp.requestData.details
              /\ Str(f.reason) = resp.requestData.reason
              /\ Str(f.type) = resp.requestData.type
              /\ f.status = "open"
              /\ f.comments = <<>>

\* C8 amended: the fetch gives back userInfo, reason and type as they were
\* submitted, formData and details as they were submitted when they were, and
\* the empty object for one that was omitted or null; status is open and there
\* is no comment.
C8_RoundTripWithDefaults ==
    (resp.op = "create" /\ resp.statusCode = 201) =>
        /\ FetchedAfterCreate # {}
        /\ \A f \in FetchedAfterCreate :
              /\ f.userInfo = resp.requestData.userInfo
              /\ f.formData = OrElse(resp.requestData.formData, EmptyObj)
              /\ f.details = OrElse(resp.requestData.details, EmptyObj)
              /\ Str(f.reason) = resp.requestData.reason
              /\ Str(f.type) = resp.requestData.type
              /\ f.status = "open"
              /\ f.comments = <<>>

\* A report with form data and details was created and is fetched as submitted.
C8_Witness ==
    /\ resp.op = "create"
    /\ resp.statusCode = 201
    /\ Get(resp.requestData.formData, "severity") = Str("high")
    /\ Get(resp.requestData.formData, "description") = Str("d")
    /\ \E f \in FetchedAfterCreate : f.formData = resp.requestData.formData

----------------------------------------------------------------------------
(* Properties of the status update (Spec, SpecNotes) *)

\* The status the last update asked for is one chk_request_status admits.
AsksValidStatus ==
    /\ resp.op = "update"
    /\ SqlString(resp.updateData.status) \in RequestStatuses

\* C4: a status update that names no stored request answers 404 and leaves
\* no comment for that id, whatever its body.
C4_UnknownIdIsNotFound ==
    (/\ resp.op = "update"
     /\ Truthy(resp.updateData.status)
     /\ resp.fault = "none"
     /\ ~Exists(resp.requestId))
    => (/\ resp.statusCode = 404
        /\ CommentsOf(comments, resp.requestId) = {})

\* TRUE when x is one of the parts of message.
Contains(message, x) == \E i \in DOMAIN message : message[i] = x

\* C5: a status update with non-blank notes on a stored request, asking for a
\* status of the enum and with the storage collaborator working, answers 200,
\* adds exactly one comment, on that request, whose message holds the status
\* and the notes, and returns the request with that comment among its comments.
C5_NotesAppendOneComment ==
    [][(/\ resp'.op = "update"
        /\ Exists(resp'.requestId)
        /\ SqlString(resp'.updateData.status) \in RequestStatuses
        /\ HasNotes(resp'.updateData)
        /\ resp'.fault = "none")
       => (/\ resp'.statusCode = 200
           /\ \E c \in comments' \ comments :
                 /\ comments' = comments \cup {c}
                 /\ c.request_id = resp'.requestId
                 /\ Contains(c.message, resp'.updateData.status.s)
                 /\ Contains(c.message, resp'.updateData.notes.s)
                 /\ \E i \in DOMAIN resp'.request.comments :
                       resp'.request.comments[i] = JSON_OBJECT(c))]_vars

\* An update with notes was answered with the request and its new comment.
C5_Witness ==
    /\ AsksValidStatus
    /\ HasNotes(resp.updateData)
    /\ resp.statusCode = 200
    /\ Len(resp.request.comments) = 1
    /\ resp.request.comments[1].message = StatusMessage(resp.updateData)
    /\ resp.request.status = resp.updateData.status.s

\* C7: when the status write succeeded and the comment insertion failed, the
\* stored status is the new one and the update is reported as successful.
C7_CommentFailureStillSuccess ==
    (/\ AsksValidStatus
     /\ Exists(resp.requestId)
     /\ resp.fault = "comment")
    => (/\ RowOf(resp.requestId).request_status = resp.updateData.status.s
        /\ resp.statusCode = 200)

\* C10: a status update on a stored request whose status is outside the enum,
\* with the storage collaborator working, answers a 4xx status and leaves requests and comments as they were.
C10_BadStatusIsClientError ==
    [][(/\ resp'.op = "update"
        /\ Truthy(resp'.updateData.status)
        /\ SqlString(resp'.updateData.status) \notin RequestStatuses
        /\ resp'.fault = "none"
        /\ Exists(resp'.requestId))
       => (/\ resp'.statusCode \in 400..499
           /\ requests' = requests
           /\ comments' = comments)]_vars

----------------------------------------------------------------------------
(* Properties of the stored rows, the transitions and the statistics       *)
(* (SpecTrack)                                                             *)

\* C11: every stored request has a status among open, in-progress, resolved,
\* closed and a priority among low, medium, high, critical, and every stored
\* comment names a stored request.
C11_StoredRowsRespectEnums ==
    /\ \A r \in requests :
          /\ r.request_status \in RequestStatuses
          /\ r.priority_level \in PriorityLevels
    /\ \A c \in comments : Exists(c.request_id)

\* C12: a status update on a stored request that asks for any status of the
\* enum, from any current status, is accepted and stores that status.
C12_AnyTransitionAccepted ==
    [][(/\ resp'.op = "update"
        /\ resp'.fault = "none"
        /\ Exists(resp'.requestId)
        /\ SqlString(resp'.updateData.status) \in RequestStatuses)
       => (/\ resp'.statusCode = 200
           /\ \E r \in requests' :
                 /\ r.id = resp'.requestId
                 /\ r.request_status = resp'.updateData.status.s
           /\ resp'.request.status = resp'.updateData.status.s)]_vars

\* A request that a comment records as closed has been taken back to open.
C12_Witness ==
    /\ resp.op = "update"
    /\ resp.statusCode = 200
    /\ resp.updateData.status = Str("open")
    /\ RowOf(resp.requestId).request_status = "open"
    /\ \E c \in CommentsOf(comments, resp.requestId) : Contains(c.message, "closed")

\* The counts of a statistics answer.
CountsOf(statistics) ==
    {statistics.total_requests, statistics.today_count, statistics.week_count,
     statistics.month_count, statistics.security_incidents_count}
    \cup {statistics.by_status[st] : st \in RequestStatuses}
    \cup {statistics.by_type[ty] : ty \in RequestTypes}
    \cup {statistics.by_priority[pl] : pl \in PriorityLevels}

\* C13: with no stored request the statistics call answers 200, every count
\* of the answer is 0 and the average is null or undefined.
C13_StatsTolerateZeroRows ==
    (resp.op = "stats" /\ ~resp.fault /\ requests = {}) =>
        /\ resp.statusCode = 200
        /\ CountsOf(resp.statistics) = {Num(0)}
        /\ resp.statistics.avg_processing_time_hours \in {Null, Undefined}

----------------------------------------------------------------------------
(* Properties of the fetch and of the frame of the status update           *)
(* (SpecFrame, SpecNotes)                                                  *)

\* The comments of a returned request are a list without null that holds
\* each stored comment of the request once, and nothing else.
WellAggregated(request) ==
    /\ DOMAIN request.comments = 1..Len(request.comments)
    /\ \A i \in DOMAIN request.comments : request.comments[i] # Null
    /\ Len(request.comments) = Cardinality(CommentsOf(comments, request.id))
    /\ {request.comments[i] : i \in DOMAIN request.comments}
          = {JSON_OBJECT(c) : c \in CommentsOf(comments, request.id)}

\* C16: a list that the storage collaborator serves answers 200 with each
\* request of the caller's scope once, and a status update on a stored
\* request whose writes succeeded answers 200; the comments of every request
\* returned are a list without null, empty when the request has no comment.
C16_CommentsAreAlwaysAList ==
    /\ (resp.op = "list" /\ ~resp.fault) =>
          /\ resp.statusCode = 200
          /\ Len(resp.requests) = Cardinality(ListedRows(resp.q))
          /\ {resp.requests[i].id : i \in DOMAIN resp.requests}
                = {r.id : r \in ListedRows(resp.q)}
          /\ \A i \in DOMAIN resp.requests : WellAggregated(resp.requests[i])
    /\ (resp.op = "update" /\ resp.fault = "none" /\ Exists(resp.requestId)
          /\ SqlString(resp.updateData.status) \in RequestStatuses) =>
          /\ resp.statusCode = 200
          /\ resp.request.id = resp.requestId
          /\ WellAggregated(resp.request)

\* The list returned a request without comments next to one with a comment.
C16_Witness ==
    /\ resp.op = "list"
    /\ resp.statusCode = 200
    /\ \E i, j \in DOMAIN resp.requests :
          /\ resp.requests[i].comments = <<>>
          /\ Len(resp.requests[j].comments) = 1

\* C17: a status update whose status write failed writes no comment, and a
\* status update whose notes are absent or blank after trimming writes no
\* comment.
C17_NoCommentWithoutStatusWrite ==
    [][resp'.op = "update" =>
         /\ (\/ resp'.fault = "update"
             \/ /\ Exists(resp'.requestId)
                /\ utf8mb4_unicode_ci(SqlString(resp'.updateData.status))
                      \notin RequestStatuses)
            => comments' = comments
         /\ (\/ ~Truthy(resp'.updateData.notes)
             \/ trim(resp'.updateData.notes.s) = "")
            => comments' = comments]_vars

\* A status update with notes whose status write failed left no comment.
C17_Witness ==
    /\ resp.op = "update"
    /\ resp.fault = "update"
    /\ resp.updateData.notes = Str("n1")
    /\ Exists(resp.requestId)
    /\ resp.statusCode = 500
    /\ comments = {}

\* C18: a status update answered 200 changes, of the stored requests, only
\* request_status and updated_at of the request it names, leaves every
\* stored comment as it was and adds at most one comment, on that request.
C18_UpdateTouchesStatusOnly ==
    [][(resp'.op = "update" /\ resp'.statusCode = 200) =>
         /\ {r.id : r \in requests'} = {r.id : r \in requests}
         /\ Cardinality(requests') = Cardinality(requests)
         /\ \A r \in requests :
               IF r.id = resp'.requestId
               THEN \E x \in requests' :
                       [x EXCEPT !.request_status = r.request_status,
                                 !.updated_at = r.updated_at] = r
               ELSE r \in requests'
         /\ comments \subseteq comments'
         /\ Cardinality(comments' \ comments) <= 1
         /\ \A c \in comments' \ comments : c.request_id = resp'.requestId]_vars

\* A status update was answered 200 and stored its status while another
\* request, still open, and a comment are stored.
C18_Witness ==
    /\ resp.op = "update"
    /\ resp.statusCode = 200
    /\ RowOf(resp.requestId).request_status = resp.updateData.status.s
    /\ \E r \in requests : r.id # resp.requestId /\ r.request_status = "open"
    /\ comments # {}

----------------------------------------------------------------------------
(* Properties of the list (SpecVisible) *)

\* C1: the list gives a caller who is not on the IT team only requests whose
\* owner is the caller's id, and gives an IT-team caller every request.
C1_ListVisibility ==
    (resp.op = "list" /\ resp.statusCode = 200) =>
        IF isITTeamMember(resp.q.userEmail)
        THEN {resp.requests[i].id : i \in DOMAIN resp.requests} = {r.id : r \in requests}
        ELSE \A i \in DOMAIN resp.requests :
                resp.requests[i].userId = SqlString(OrElse(resp.q.userId, Str("test-user-123")))

\* C9: the list treats a caller as IT team exactly when role resolution of the
\* caller's e-mail gives isITTeam.
C9_ListScopeFollowsRoleResolver ==
    (resp.op = "list" /\ Truthy(resp.q.userEmail)) =>
        resp.isITUser = ResolveRole(resp.q.userEmail).isITTeam

----------------------------------------------------------------------------
(* Properties of role resolution (SpecRoles) *)

\* The last call resolved the role of an e-mail and the store answered.
Resolved ==
    /\ resp.op = "user-role"
    /\ Truthy(resp.userEmail)
    /\ ~resp.fault

\* The record the store holds for the e-mail of the last call, if any.
RecordsOfCaller == {u \in user_roles : u.email = toLowerCase(resp.userEmail.s)}

\* C14: the role of an e-mail the store has no record of resolves, with
\* status 200, to user with exactly the permissions request:create and
\* request:view-own, isITTeam false and isAdmin false.
C14_UnknownEmailIsMinimalUser ==
    (Resolved /\ RecordsOfCaller = {}) =>
        /\ resp.statusCode = 200
        /\ resp.user.role = "user"
        /\ resp.user.permissions = Arr(<<"request:create", "request:view-own">>)
        /\ resp.user.isITTeam = FALSE
        /\ resp.user.isAdmin = FALSE

\* The role of an e-mail of the IT team list was resolved against a store
\* that holds a record, for another e-mail only.
C14_Witness ==
    /\ Resolved
    /\ resp.userEmail = Str("john.smith@company.net")
    /\ user_roles # {}
    /\ RecordsOfCaller = {}
    /\ resp.user.role = "user"

\* TRUE when the stored permissions are not a list nor the text of one.
NotAList(permissionsData) ==
    ~(permissionsData.t = "array" \/ IsJsonArrayText(permissionsData))

\* The default permission set of a role.
RoleKeyedDefault(role) ==
    CASE role = "admin" -> Arr(AdminPermissions)
      [] role = "it-support" -> Arr(ITSupportPermissions)
      [] OTHER -> Arr(MinimalPermissions)

\* C15: when the record found holds permissions that are not parsable as a
\* list, resolution answers 200 with the record's role and the default
\* permission set of that role.
C15_UnparsablePermissionsFallBackByRole ==
    (Resolved /\ \E u \in RecordsOfCaller : NotAList(u.permissions)) =>
        /\ resp.statusCode = 200
        /\ \A u \in RecordsOfCaller :
              /\ resp.user.role = u.user_role
              /\ resp.user.permissions = RoleKeyedDefault(u.user_role)

----------------------------------------------------------------------------
(* Properties of concurrent status updates (SpecRace) *)

\* Both invocations have answered, after a status write each on one request.
BothWrote ==
    /\ \A i \in Invocations : inflight[i].pc = "done" /\ inflight[i].wrote > 0
    /\ \A i, j \in Invocations : inflight[i].requestId = inflight[j].requestId

\* The invocation whose status write the storage committed last.
LastWriter == CHOOSE i \in Invocations : inflight[i].wrote = Committed

\* C19: an invocation that has a query to run can always run it, whatever the
\* other invocation is doing; and once two status updates on one stored
\* request have both answered, the stored status is the one of the status
\* write committed last and every invocation that carried notes has its
\* comment stored.
C19_LastWriterWins ==
    /\ \A i \in Invocations :
          inflight[i].pc \in {"update", "comment", "fetch"} => ENABLED Resume(i)
    /\ BothWrote =>
          LET id == inflight[LastWriter].requestId
              noted == {i \in Invocations : HasNotes(inflight[i].updateData)}
          IN  /\ RowOf(id).request_status = inflight[LastWriter].updateData.status.s
              /\ \A i \in noted :
                    \E c \in CommentsOf(comments, id) :
                        c.message = StatusMessage(inflight[i].updateData)
              /\ Cardinality(CommentsOf(comments, id)) = Cardinality(noted)

\* Two status updates with notes asked for different statuses and both
\* answered; the one that wrote first answered last.
C19_Witness ==
    /\ BothWrote
    /\ \E i \in Invocations :
          /\ i # LastWriter
          /\ inflight[i].updateData.status # inflight[LastWriter].updateData.status
          /\ inflight[i].seen = Committed
          /\ inflight[LastWriter].seen = Committed
    /\ Cardinality(comments) = Cardinality(Invocations)

\* C20 as stated: every status update answered 200 returns the request with
\* the status that call asked for.
C20_ResponseHasRequestedStatus ==
    \A i \in Invocations :
        (inflight[i].pc = "done" /\ inflight[i].response.statusCode = 200) =>
            inflight[i].response.request.status = inflight[i].updateData.status.s

\* C20 amended: every status update answered 200 returns the request with the
\* status of the status write committed last before the call's re-fetch: the
\* call's own when no other was committed after it, else that of the latest.
C20_ResponseHasStatusAtRefetch ==
    \A i \in Invocations :
        (inflight[i].pc = "done" /\ inflight[i].response.statusCode = 200) =>
            /\ inflight[i].seen >= inflight[i].wrote
            /\ \E j \in Invocations :
                  /\ inflight[j].pc # "idle"
                  /\ inflight[j].wrote = inflight[i].seen
                  /\ inflight[i].response.request.status
                        = inflight[j].updateData.status.s

\* One status update answered with its own status, the other, whose re-fetch
\* came after the first one's write, with the first one's status.
C20_Witness ==
    \E i, j \in Invocations :
        /\ inflight[i].pc = "done" /\ inflight[j].pc = "done"
        /\ inflight[i].response.statusCode = 200
        /\ inflight[j].response.statusCode = 200
        /\ inflight[i].seen > inflight[i].wrote
        /\ inflight[j].seen = inflight[j].wrote
        /\ inflight[i].updateData.status # inflight[j].updateData.status
        /\ inflight[i].response.request.status = inflight[j].updateData.status.s
        /\ inflight[j].response.request.status = inflight[j].updateData.status.s

====
